---- MODULE Spec2Model ----
(***************************************************************************)
(* TurboZap: the due-date driven WhatsApp dunning dispatcher of            *)
(* API_WHATSAPP/turbozap.py.  Strings the program takes apart (phone       *)
(* numbers, period codes) are sequences of one-character strings; a        *)
(* message template is the sequence of its literal-text runs ("txt") and   *)
(* its replacement fields; dates are day numbers.                          *)
(***************************************************************************)
EXTENDS Integers, Sequences, FiniteSets, TLC

\* ------------------------------------------------------------ bounds
\* rows in the receivables table
MaxRows == 2
\* rows in the table of a run the clock advances in
MaxClockRows == 2
\* midnights that pass while a run is under way
MaxMidnights == 1
\* rows in the table of a dispatch that is repeated
MaxRepeatRows == 2
\* times a caller repeats a dispatch
MaxRepeats == 1
\* rows in the table the readers are called on by themselves
MaxReaderRows == 2
\* characters of a period code given to the catalog
MaxCodeLen == 4
\* characters of a raw phone number given to the normalizer
MaxPhoneLen == 11
\* characters among them that are no digits
MaxSeps == 1
\* largest max_messages passed by a caller
MaxCap == 2

\* ------------------------------------------------------------ values
\* Python's None as the value of max_messages (the parameter's default)
None == -1

\* the day datetime.now() falls on
Today0 == 10

Digits == {"0", "1", "2", "3", "4", "5", "6", "7", "8", "9"}

DigitVal(c) ==
    CASE c = "0" -> 0 [] c = "1" -> 1 [] c = "2" -> 2 [] c = "3" -> 3
      [] c = "4" -> 4 [] c = "5" -> 5 [] c = "6" -> 6 [] c = "7" -> 7
      [] c = "8" -> 8 [] c = "9" -> 9

IsDigit(c) == c \in Digits

StartsWith(s, p) == Len(s) >= Len(p) /\ SubSeq(s, 1, Len(p)) = p

\* "sub in s" for a two-character sub
Contains(s, sub) == \E k \in 1..(Len(s) - 1) : SubSeq(s, k, k + 1) = sub

\* positions of the separator c in s
SepPositions(s, c) == {k \in 1..Len(s) : s[k] = c}

\* s.split(c)[1]: the text between the first c and the next one (or the end)
SplitSecond(s, c) ==
    LET ps == SepPositions(s, c)
        p1 == CHOOSE k \in ps : \A j \in ps : k <= j
        rest == {k \in ps : k > p1}
        p2 == IF rest = {} THEN Len(s) + 1
              ELSE CHOOSE k \in rest : \A j \in rest : k <= j
    IN  SubSeq(s, p1 + 1, p2 - 1)

\* int(s) succeeds on a non-empty run of digits
IsInt(s) == Len(s) > 0 /\ \A k \in 1..Len(s) : IsDigit(s[k])

RECURSIVE ToInt(_)
ToInt(s) ==
    IF s = <<>> THEN 0
    ELSE 10 * ToInt(SubSeq(s, 1, Len(s) - 1)) + DigitVal(s[Len(s)])

\* ------------------------------------------------------------ catalog
P_D3 == <<"D", "-", "3">>
P_D0 == <<"D", "+", "0">>
P_D1 == <<"D", "+", "1">>
P_D7 == <<"D", "+", "7">>
P_D14 == <<"D", "+", "1", "4">>
P_D21 == <<"D", "+", "2", "1">>

\* the four replacement fields of a template
F_nome == "{nome}"
F_valor == "{valor:.2f}"
F_vencimento == "{vencimento}"
F_link == "{link_pagamento}"

Placeholders == {F_nome, F_valor, F_vencimento, F_link}

\* the usual shape: text, name, text, amount, text, due date, text, link, text
StdMessage ==
    <<"txt", F_nome, "txt", F_valor, "txt", F_vencimento, "txt", F_link, "txt">>

\* MessageTemplates.TEMPLATES, in definition order
TEMPLATES ==
    << [periodo |-> P_D3, message |-> StdMessage,
        description |-> "Lembrete 3 dias antes do vencimento"],
       [periodo |-> P_D0, message |-> StdMessage,
        description |-> "Aviso no dia do vencimento"],
       [periodo |-> P_D1, message |-> StdMessage,
        description |-> "Primeiro aviso de atraso"],
       [periodo |-> P_D7, message |-> StdMessage,
        description |-> "Suspensao de servicos"],
       [periodo |-> P_D14, message |-> StdMessage,
        description |-> "Aviso pre-judicial"],
       [periodo |-> P_D21,
        message |-> <<"txt", F_nome, "txt", F_vencimento, "txt", F_valor, "txt">>,
        description |-> "Notificacao judicial"] >>

\* TEMPLATES.get(periodo): the entry's index, 0 when the key is absent
TemplateIndex(periodo) ==
    IF \E k \in 1..Len(TEMPLATES) : TEMPLATES[k].periodo = periodo
    THEN CHOOSE k \in 1..Len(TEMPLATES) : TEMPLATES[k].periodo = periodo
    ELSE 0

InCatalog(periodo) == TemplateIndex(periodo) # 0

\* a lookup that does not find the last entry of the catalog
get_message_raises_on_last(periodo) == TemplateIndex(periodo) \in {0, Len(TEMPLATES)}

\* get_message raises ValueError when the period is not a key
get_message_raises(periodo) == ~InCatalog(periodo)

\* a lookup that is off by one entry of the catalog
get_message_next_entry(periodo) ==
    TEMPLATES[(TemplateIndex(periodo) % Len(TEMPLATES)) + 1].message

get_message(periodo) == TEMPLATES[TemplateIndex(periodo)].message

get_description(periodo) ==
    IF InCatalog(periodo) THEN TEMPLATES[TemplateIndex(periodo)].description
    ELSE "Periodo desconhecido"

\* a list_periods that sorts the keys
list_periods_sorted == <<P_D0, P_D1, P_D14, P_D21, P_D7, P_D3>>

list_periods == [k \in 1..Len(TEMPLATES) |-> TEMPLATES[k].periodo]

\* ------------------------------------------------------------ sender
\* a telefone that is NULL in the table, None in Python: no text at all
NullPhone == <<"NULL">>

\* a normalizer that takes every 11-digit number for one with the area code
format_phone_number_any11(phone) ==
    IF phone = NullPhone \/ phone = <<>> THEN <<>>
    ELSE LET clean_phone == SelectSeq(phone, IsDigit)
         IN  IF Len(clean_phone) = 11
             THEN <<"5", "5">> \o clean_phone
             ELSE IF Len(clean_phone) = 10
                  THEN <<"5", "5", "1", "1">> \o clean_phone
                  ELSE clean_phone

\* a normalizer that also completes a 9-digit number with the area code 11
format_phone_number_with_area(phone) ==
    IF phone = NullPhone \/ phone = <<>> THEN <<>>
    ELSE LET clean_phone == SelectSeq(phone, IsDigit)
         IN  IF Len(clean_phone) = 11 /\ StartsWith(clean_phone, <<"1", "1">>)
             THEN <<"5", "5">> \o clean_phone
             ELSE IF Len(clean_phone) = 10
                  THEN <<"5", "5", "1", "1">> \o clean_phone
                  ELSE IF Len(clean_phone) = 9
                       THEN <<"1", "1">> \o clean_phone
                       ELSE clean_phone

\* WhatsAppSender.format_phone_number
format_phone_number(phone) ==
    IF phone = NullPhone \/ phone = <<>> THEN <<>>
    ELSE LET clean_phone == SelectSeq(phone, IsDigit)
         IN  IF Len(clean_phone) = 11 /\ StartsWith(clean_phone, <<"1", "1">>)
             THEN <<"5", "5">> \o clean_phone
             ELSE IF Len(clean_phone) = 10
                  THEN <<"5", "5", "1", "1">> \o clean_phone
                  ELSE clean_phone

\* WhatsAppSender.format_message.  A field of the row is "ok", "None" (the
\* key is there, the value is None), "bad" (a total float() rejects) or
\* "missing" (no such key).  The keyword arguments of template.format
\* raise for a missing key, for a total float() rejects and for a due date
\* without strftime; format itself raises for a field it is not given
format_message_fails(template, cliente) ==
    \/ cliente.cliente_nome = "missing"
    \/ cliente.total # "ok"
    \/ cliente.data_vencimento # "ok"
    \/ cliente.link_pagamento = "missing"
    \/ \E k \in 1..Len(template) :
          template[k] \notin Placeholders \cup {"txt"}

\* the except clause logs cliente['cliente_nome']: a KeyError when the row has
\* no such key
format_message_raises(template, cliente) ==
    format_message_fails(template, cliente) /\ cliente.cliente_nome = "missing"

\* the text a replacement field is replaced with
FieldText(field, cliente) ==
    CASE field = F_nome -> <<"nome", cliente.cliente_nome>>
      [] field = F_valor -> <<"valor", cliente.total>>
      [] field = F_vencimento -> <<"vencimento", cliente.data_vencimento>>
      [] field = F_link -> <<"link_pagamento", cliente.link_pagamento>>

format_message(template, cliente) ==
    IF format_message_fails(template, cliente) THEN template
    ELSE [k \in 1..Len(template) |->
             IF template[k] \in Placeholders THEN FieldText(template[k], cliente)
             ELSE template[k]]

\* what requests.post can end in: an HTTP answer, a timeout, another
\* transport failure (requests.exceptions.RequestException)
Responses ==
    {[kind |-> "http", status |-> s] : s \in {200, 201, 204, 404, 500}}
    \cup {[kind |-> "Timeout", status |-> 0],
          [kind |-> "RequestException", status |-> 0]}

NoResponse == [kind |-> "none", status |-> 0]

\* a sender that takes every 2xx answer for an acceptance
AcceptedAny2xx(response) ==
    response.kind = "http" /\ response.status \in 200..299

\* the test of the answer in send_message
Accepted(response) == response.kind = "http" /\ response.status \in {200, 201}

\* an exception out of send_message that is no RequestException: the handlers
\* of send_message let it pass
OtherException == [kind |-> "Exception", status |-> 0]

\* what a call of requests.post can end in
Outcomes == Responses \cup {OtherException}

\* ------------------------------------------------------------ reader
\* a WHERE clause without the test of the unpaid amount
DueFilterAnyAmount(row, data_vencimento) ==
    /\ row.data_vencimento = data_vencimento
    /\ row.telefone # NullPhone
    /\ row.telefone # <<>>
    /\ row.pago = "0"

\* a row is a dispatch candidate of buscar_clientes_por_vencimento
DueFilter(row, data_vencimento) ==
    /\ row.data_vencimento = data_vencimento
    /\ row.telefone # NullPhone
    /\ row.telefone # <<>>
    /\ row.pago = "0"
    /\ row.nao_pago > 0

\* the selected columns
Columns(row) ==
    [id |-> row.id, telefone |-> row.telefone,
     data_vencimento |-> row.data_vencimento, total |-> row.total,
     status |-> row.status]

\* the orders ORDER BY total DESC allows for the rows at positions S of table
OrderedByTotalDesc(table, S) ==
    {s \in [1..Cardinality(S) -> S] :
        /\ \A a, b \in 1..Cardinality(S) : a # b => s[a] # s[b]
        /\ \A a, b \in 1..Cardinality(S) :
              a < b => table[s[a]].total >= table[s[b]].total}

\* a reader without its except clause: a failed query leaves it as an exception
QueryErrorReraised(failed) == failed

\* whether a failed query leaves a reader as an exception: both readers catch
\* Exception and return []
QueryErrorRaised(failed) == FALSE

\* the results buscar_clientes_por_vencimento can return for a table
buscar_clientes_por_vencimento(table, data_vencimento) ==
    LET S == {k \in 1..Len(table) : DueFilter(table[k], data_vencimento)}
    IN  {[k \in 1..Cardinality(S) |-> Columns(table[s[k]])] :
            s \in OrderedByTotalDesc(table, S)}

\* a row is a candidate of buscar_clientes_inadimplentes
OverdueFilter(row, data_limite) ==
    /\ row.data_vencimento <= data_limite
    /\ row.telefone # NullPhone
    /\ row.telefone # <<>>
    /\ row.pago = "0"
    /\ row.nao_pago > 0
    /\ row.status # "ACQUITTED"

\* the orders ORDER BY data_vencimento ASC, total DESC allows
OrderedByDueAscTotalDesc(table, S) ==
    {s \in [1..Cardinality(S) -> S] :
        /\ \A a, b \in 1..Cardinality(S) : a # b => s[a] # s[b]
        /\ \A a, b \in 1..Cardinality(S) :
              a < b =>
                  \/ table[s[a]].data_vencimento < table[s[b]].data_vencimento
                  \/ /\ table[s[a]].data_vencimento = table[s[b]].data_vencimento
                     /\ table[s[a]].total >= table[s[b]].total}

\* the results buscar_clientes_inadimplentes can return for a table
buscar_clientes_inadimplentes(table, now, dias_atraso) ==
    LET S == {k \in 1..Len(table) : OverdueFilter(table[k], now - dias_atraso)}
    IN  {[k \in 1..Cardinality(S) |-> Columns(table[s[k]])] :
            s \in OrderedByDueAscTotalDesc(table, S)}

\* ------------------------------------------------------------ dates
\* TurboZap.calculate_target_date raises ValueError when int() does
calculate_target_date_raises(periodo) ==
    IF Contains(periodo, <<"D", "+">>) THEN ~IsInt(SplitSecond(periodo, "+"))
    ELSE IF Contains(periodo, <<"D", "-">>) THEN ~IsInt(SplitSecond(periodo, "-"))
    ELSE FALSE

\* a date rule with the two offsets exchanged
calculate_target_date_swapped(periodo, now) ==
    IF Contains(periodo, <<"D", "+">>)
    THEN now + ToInt(SplitSecond(periodo, "+"))
    ELSE IF Contains(periodo, <<"D", "-">>)
         THEN now - ToInt(SplitSecond(periodo, "-"))
         ELSE now

calculate_target_date(periodo, now) ==
    IF Contains(periodo, <<"D", "+">>)
    THEN now - ToInt(SplitSecond(periodo, "+"))
    ELSE IF Contains(periodo, <<"D", "-">>)
         THEN now + ToInt(SplitSecond(periodo, "-"))
         ELSE now

\* ------------------------------------------------------------ inputs
\* the settings validate_config requires
required_vars ==
    {"DB_HOST", "DB_PORT", "DB_NAME", "DB_USER", "DB_PASSWORD",
     "EVOLUTION_API_URL", "EVOLUTION_INSTANCE", "EVOLUTION_API_KEY"}

\* environments the program is started in: complete, one setting absent (or
\* empty, which os.getenv's truth test takes for absent), or none set
Environments ==
    {required_vars, {}} \cup {required_vars \ {v} : v \in required_vars}

PhoneOK == <<"1", "1", "9", "9", "9", "9", "9", "8", "8", "8", "8">>
PhoneBad == <<"s", "/", "n">>

\* a period code that is no key of the catalog
P_D99 == <<"D", "+", "9", "9">>

\* period codes a caller passes
PeriodArgs == {P_D3, P_D0, P_D99}

\* max_messages a caller passes
Caps == {None} \cup 0..MaxCap

DueDates == {Today0, Today0 + 3}

\* the total of the invoice with identifier id: later invoices are larger, so
\* the reader's order is not the table's
TotalOf(id) == 50 + 50 * id

\* rows of caz_receber with identifier id: open invoices, and rows the
\* reader's WHERE clause excludes
OpenRows(id) ==
    {[id |-> id, telefone |-> t, data_vencimento |-> d, total |-> TotalOf(id),
      status |-> st, pago |-> "0", nao_pago |-> TotalOf(id)] :
        t \in {PhoneOK, PhoneBad}, d \in DueDates, st \in {"PENDING", "ACQUITTED"}}

ExcludedRows(id) ==
    {[id |-> id, telefone |-> PhoneOK, data_vencimento |-> Today0,
      total |-> TotalOf(id), status |-> "ACQUITTED", pago |-> "1", nao_pago |-> 0],
     [id |-> id, telefone |-> <<>>, data_vencimento |-> Today0,
      total |-> TotalOf(id), status |-> "PENDING", pago |-> "0",
      nao_pago |-> TotalOf(id)],
     [id |-> id, telefone |-> PhoneOK, data_vencimento |-> Today0,
      total |-> TotalOf(id), status |-> "PENDING", pago |-> "0", nao_pago |-> 0]}

Tables ==
    UNION {{t \in [1..n -> UNION {OpenRows(k) \cup ExcludedRows(k) : k \in 1..n}] :
               \A k \in 1..n : t[k].id = k} : n \in 0..MaxRows}

\* dias_atraso a caller passes
Dias == {0, 1}

\* sys.argv as main reads it: its length, and the value of --periodo
Argvs ==
    {[len |-> 1, flag |-> FALSE, periodo |-> <<>>]}
    \cup {[len |-> 3, flag |-> TRUE, periodo |-> p] : p \in PeriodArgs \cup {<<>>}}

\* ------------------------------------------------------------ state
VARIABLES
    ledger,             \* the table caz_receber
    today,              \* the day datetime.now() falls on
    pc,                 \* where the program is
    op,                 \* the entry point the caller invoked
    mode,               \* "all", "specific" or "direct" dispatch
    argv,               \* the command line of main
    max_messages,       \* the cap passed to the dispatch
    missing_vars,       \* validate_config's missing_vars
    db_manager,         \* self.db_manager: "None", "open" or "closed"
    whatsapp_sender,    \* self.whatsapp_sender and its two counters
    db_connects,        \* psycopg2.connect calls so far
    db_queries,         \* cursor.execute calls so far
    periodIdx,          \* position in list_periods() of an all-periods run
    periodo,            \* the period being dispatched
    mensagem,           \* its template
    data_vencimento,    \* its target date
    candidates,         \* what the reader returned to the dispatch
    clientes,           \* the candidate list of the dispatch, capped
    i,                  \* rows of clientes the loop is past
    sent_count, error_count, skipped_count,
    response,           \* the gateway's answer to the last request
    stats,              \* what send_messages_for_period last returned
    total_stats,        \* run_all_periods' accumulator
    result,             \* what the entry point returned
    raised,             \* the exception the entry point raised
    trace,              \* skips, send_message calls, gateway requests, sleeps
    log,                \* kinds of lines logged
    environ,            \* the settings os.getenv finds
    arg,                \* the argument of a function called by itself
    ret,                \* what that call returned
    session             \* the keys of the web app's Flask session

vars ==
    <<ledger, today, pc, op, mode, argv, max_messages, missing_vars, db_manager,
      whatsapp_sender, db_connects, db_queries, periodIdx, periodo, mensagem,
      data_vencimento, candidates, clientes, i, sent_count, error_count, skipped_count,
      response, stats, total_stats, result, raised, trace, log, environ, arg, ret,
      session>>

NoStats == [none |-> TRUE]
NoArgv == [len |-> 0, flag |-> FALSE, periodo |-> <<>>]
NoSender == [exists |-> FALSE, sent_count |-> 0, error_count |-> 0]
NoReturn == [called |-> FALSE]

\* the program before its entry point is called
Fresh ==
    /\ today = Today0
    /\ pc = "start"
    /\ op = "none"
    /\ mode = "none"
    /\ argv = NoArgv
    /\ max_messages = None
    /\ missing_vars = {}
    /\ db_manager = "None"
    /\ whatsapp_sender = NoSender
    /\ db_connects = 0
    /\ db_queries = 0
    /\ periodIdx = 0
    /\ periodo = <<>>
    /\ mensagem = <<>>
    /\ data_vencimento = 0
    /\ candidates = <<>>
    /\ clientes = <<>>
    /\ i = 0
    /\ sent_count = 0
    /\ error_count = 0
    /\ skipped_count = 0
    /\ response = NoResponse
    /\ stats = NoStats
    /\ total_stats = NoStats
    /\ result = NoStats
    /\ raised = "none"
    /\ trace = <<>>
    /\ log = {}
    /\ session = {}

Init ==
    /\ ledger \in Tables
    /\ environ \in Environments
    /\ Fresh
    /\ arg = <<>>
    /\ ret = NoReturn

\* ------------------------------------------------------------ returns
ZeroStats == [sent |-> 0, errors |-> 0, skipped |-> 0]

\* the entry point returns st to its caller; main logs and passes it on
Returned(st, lg) ==
    /\ result' = st
    /\ raised' = "none"
    /\ pc' = "done"
    /\ log' = IF op = "main" THEN lg \cup {"TurboZap finalizado"} ELSE lg

\* the entry point ends in exception exc; main catches it and returns an error
Escaped(exc, lg) ==
    /\ pc' = "done"
    /\ IF op = "main"
       THEN /\ result' = [error |-> exc]
            /\ raised' = "none"
            /\ log' = lg \cup {"Erro durante execucao"}
       ELSE /\ result' = result
            /\ raised' = exc
            /\ log' = lg

\* a run mode without the finally clause
NoFinally(db) == db

\* the finally clause of both run modes: close() when there is a db_manager
FinallyClose(db) == IF db = "None" THEN "None" ELSE "closed"

\* run_all_periods goes on after a period left entry in total_stats
NextPeriod(ts, lg) ==
    /\ total_stats' = ts
    /\ IF periodIdx < Len(list_periods)
       THEN /\ periodIdx' = periodIdx + 1
            /\ pc' = "period"
            /\ log' = lg
            /\ UNCHANGED <<result, raised, db_manager>>
       ELSE /\ db_manager' = FinallyClose(db_manager)
            /\ Returned([sent |-> ts.sent, errors |-> ts.errors,
                         skipped |-> ts.skipped, periods |-> ts.periods],
                        lg \cup {"TOTAL GERAL"})
            /\ UNCHANGED periodIdx

\* send_messages_for_period(p, ...) returns st to the run mode that called it
PeriodReturned(p, st, lg) ==
    /\ stats' = st
    /\ IF mode = "direct"
       THEN /\ Returned(st, lg)
            /\ UNCHANGED <<total_stats, db_manager, periodIdx>>
       ELSE IF mode = "specific"
            THEN /\ db_manager' = FinallyClose(db_manager)
                 /\ Returned(st, lg)
                 /\ UNCHANGED <<total_stats, periodIdx>>
            ELSE NextPeriod(
                     [sent |-> total_stats.sent + st.sent,
                      errors |-> total_stats.errors + st.errors,
                      skipped |-> total_stats.skipped + st.skipped,
                      periods |-> Append(total_stats.periods,
                                         [periodo |-> p, stats |-> st])],
                     lg)

\* a run_all_periods without the except clause of its loop
PeriodRaisedUncaught(p, exc, lg) ==
    /\ stats' = stats
    /\ db_manager' = IF mode = "direct" THEN db_manager ELSE FinallyClose(db_manager)
    /\ Escaped(exc, lg)
    /\ UNCHANGED <<total_stats, periodIdx>>

\* send_messages_for_period(p, ...) raises exc into the run mode that called it
PeriodRaised(p, exc, lg) ==
    /\ stats' = stats
    /\ IF mode = "direct"
       THEN /\ Escaped(exc, lg)
            /\ UNCHANGED <<total_stats, db_manager, periodIdx>>
       ELSE IF mode = "specific"
            THEN /\ db_manager' = FinallyClose(db_manager)
                 /\ Escaped(exc, lg)
                 /\ UNCHANGED <<total_stats, periodIdx>>
            ELSE NextPeriod(
                     [total_stats EXCEPT
                         !.periods = Append(@, [periodo |-> p,
                                                stats |-> [error |-> exc]])],
                     lg \cup {"Erro ao processar periodo"})

\* ------------------------------------------------------------ entry points
\* a validation that looks for the database settings only
validate_config_db_only(env) ==
    {"DB_HOST", "DB_PORT", "DB_NAME", "DB_USER", "DB_PASSWORD"} \ env

\* validate_config: the required settings os.getenv does not find
validate_config(env) == required_vars \ env

\* a main that does not test --periodo
PeriodNotTested(p) == TRUE

\* main's test of --periodo against the catalog
PeriodIsListed(p) == \E k \in 1..Len(list_periods) : list_periods[k] = p

\* main() up to the call of a run mode
main(a) ==
    /\ pc = "start"
    /\ op' = "main"
    /\ argv' = a
    /\ IF a.len = 1
       THEN /\ pc' = "done"
            /\ UNCHANGED <<mode, periodo, missing_vars, result, raised, log>>
       ELSE IF validate_config(environ) # {}
            THEN /\ missing_vars' = validate_config(environ)
                 /\ pc' = "done"
                 /\ result' = [error |-> "ValueError"]
                 /\ log' = log \cup {"Iniciando TurboZap", "Erro durante execucao"}
                 /\ UNCHANGED <<mode, periodo, raised>>
            ELSE IF a.flag /\ a.periodo # <<>>
                 THEN IF PeriodIsListed(a.periodo)
                      THEN /\ mode' = "specific"
                           /\ periodo' = a.periodo
                           /\ pc' = "initialize"
                           /\ log' = log \cup {"Iniciando TurboZap",
                                               "Executando periodo especifico"}
                           /\ UNCHANGED <<missing_vars, result, raised>>
                      ELSE /\ pc' = "done"
                           /\ log' = log \cup {"Iniciando TurboZap", "Periodo invalido"}
                           /\ UNCHANGED <<mode, periodo, missing_vars, result, raised>>
                 ELSE /\ mode' = "all"
                      /\ pc' = "initialize"
                      /\ log' = log \cup {"Iniciando TurboZap",
                                          "Executando todos os periodos"}
                      /\ UNCHANGED <<periodo, missing_vars, result, raised>>
    /\ UNCHANGED <<environ, arg, ret, session>>
    /\ UNCHANGED <<ledger, today, max_messages, db_manager, whatsapp_sender,
                   db_connects, db_queries, periodIdx, mensagem, data_vencimento,
                   candidates, clientes, i, sent_count, error_count, skipped_count, response,
                   stats, total_stats, trace>>

\* TurboZap(): the constructor called by a program using the class
TurboZap ==
    /\ pc = "start"
    /\ op' = "TurboZap"
    /\ missing_vars' = validate_config(environ)
    /\ IF validate_config(environ) # {}
       THEN pc' = "done" /\ raised' = "ValueError"
       ELSE pc' = "constructed" /\ raised' = raised
    /\ UNCHANGED <<environ, arg, ret, session>>
    /\ UNCHANGED <<ledger, today, mode, argv, max_messages, db_manager,
                   whatsapp_sender, db_connects, db_queries, periodIdx, periodo,
                   mensagem, data_vencimento, candidates, clientes, i, sent_count, error_count,
                   skipped_count, response, stats, total_stats, result, trace, log>>

\* run_all_periods(max_messages_per_period) is called
run_all_periods(cap) ==
    /\ pc = "constructed"
    /\ op' = "run_all_periods"
    /\ mode' = "all"
    /\ max_messages' = cap
    /\ pc' = "initialize"
    /\ UNCHANGED <<environ, arg, ret, session>>
    /\ UNCHANGED <<ledger, today, argv, missing_vars, db_manager, whatsapp_sender,
                   db_connects, db_queries, periodIdx, periodo, mensagem,
                   data_vencimento, candidates, clientes, i, sent_count, error_count,
                   skipped_count, response, stats, total_stats, result, raised,
                   trace, log>>

\* run_specific_period(periodo, max_messages) is called
run_specific_period(p, cap) ==
    /\ pc = "constructed"
    /\ op' = "run_specific_period"
    /\ mode' = "specific"
    /\ periodo' = p
    /\ max_messages' = cap
    /\ pc' = "initialize"
    /\ UNCHANGED <<environ, arg, ret, session>>
    /\ UNCHANGED <<ledger, today, argv, missing_vars, db_manager, whatsapp_sender,
                   db_connects, db_queries, periodIdx, mensagem, data_vencimento,
                   candidates, clientes, i, sent_count, error_count, skipped_count, response,
                   stats, total_stats, result, raised, trace, log>>

\* send_messages_for_period(periodo, max_messages) is called on the instance
\* itself, after initialize() or without it
send_messages_for_period(p, cap) ==
    /\ pc \in {"constructed", "initialized", "not initialized"}
    /\ op' = "send_messages_for_period"
    /\ mode' = "direct"
    /\ periodo' = p
    /\ max_messages' = cap
    /\ pc' = "period"
    /\ UNCHANGED <<environ, arg, ret, session>>
    /\ UNCHANGED <<ledger, today, argv, missing_vars, db_manager, whatsapp_sender,
                   db_connects, db_queries, periodIdx, mensagem, data_vencimento,
                   candidates, clientes, i, sent_count, error_count, skipped_count, response,
                   stats, total_stats, result, raised, trace, log>>

\* a run mode that does not look at what initialize() returned
InitializeUnchecked(initialized) == FALSE

\* the run modes' test "if not self.initialize()"
InitializeFailed(initialized) == ~initialized

\* initialize(): first statement of both run modes, or called on the instance;
\* connected tells whether psycopg2.connect succeeds
initialize(connected) ==
    /\ pc \in {"initialize", "constructed"}
    /\ db_connects' = db_connects + 1
    /\ db_manager' = IF connected THEN "open" ELSE db_manager
    /\ whatsapp_sender' =
          IF connected THEN [exists |-> TRUE, sent_count |-> 0, error_count |-> 0]
          ELSE whatsapp_sender
    /\ LET lg == log \cup {IF connected THEN "TurboZap inicializado"
                            ELSE "Erro ao inicializar"}
       IN  IF pc = "constructed"
           THEN /\ pc' = IF connected THEN "initialized" ELSE "not initialized"
                /\ log' = lg
                /\ UNCHANGED <<periodIdx, total_stats, result, raised>>
           ELSE IF InitializeFailed(connected)
                THEN /\ Returned([error |-> "Falha na inicializacao"], lg)
                     /\ UNCHANGED <<periodIdx, total_stats>>
                ELSE /\ pc' = "period"
                     /\ log' = lg
                     /\ IF mode = "all"
                        THEN /\ periodIdx' = 1
                             /\ total_stats' = [sent |-> 0, errors |-> 0,
                                                skipped |-> 0, periods |-> <<>>]
                        ELSE UNCHANGED <<periodIdx, total_stats>>
                     /\ UNCHANGED <<result, raised>>
    /\ UNCHANGED <<environ, arg, ret, session>>
    /\ UNCHANGED <<ledger, today, op, mode, argv, max_messages, missing_vars,
                   db_queries, periodo, mensagem, data_vencimento, candidates, clientes, i,
                   sent_count, error_count, skipped_count, response, stats, trace>>

\* ------------------------------------------------------------ dispatch
\* Python's truth value of max_messages
Truthy(n) == n # None /\ n # 0

\* the cap of send_messages_for_period: clientes[:max_messages]
Limited(rows, cap) ==
    IF Truthy(cap) /\ Len(rows) > cap THEN SubSeq(rows, 1, cap) ELSE rows

\* a loop that looks for another status value than the ledger's sentinel
AlreadyPaidOtherSentinel(cliente) == cliente.status = "PAID"

\* the loop's test for a row it passes over
AlreadyPaid(cliente) == cliente.status = "ACQUITTED"

\* the loop's test for sleeping after the n-th row of len
DelayAfter(n, len) == n < len

\* a send_message that returns True for a row it could not deliver
send_message_reports_sent(sender, cliente, r) ==
    LET numero_cliente == format_phone_number(cliente.telefone)
    IN  IF numero_cliente = <<>>
        THEN [posted |-> FALSE, success |-> TRUE, sender |-> sender]
        ELSE IF Accepted(r)
             THEN [posted |-> TRUE, success |-> TRUE,
                   sender |-> [sender EXCEPT !.sent_count = @ + 1]]
             ELSE [posted |-> TRUE, success |-> TRUE,
                   sender |-> [sender EXCEPT !.error_count = @ + 1]]

\* WhatsAppSender.send_message(cliente, mensagem) when the gateway, if asked,
\* answers r: whether a request is issued, the value returned, the sender after
send_message(sender, cliente, r) ==
    LET numero_cliente == format_phone_number(cliente.telefone)
    IN  IF numero_cliente = <<>>
        THEN [posted |-> FALSE, success |-> FALSE, sender |-> sender]
        ELSE IF Accepted(r)
             THEN [posted |-> TRUE, success |-> TRUE,
                   sender |-> [sender EXCEPT !.sent_count = @ + 1]]
             ELSE [posted |-> TRUE, success |-> FALSE,
                   sender |-> [sender EXCEPT !.error_count = @ + 1]]

\* WhatsAppSender.get_statistics
get_statistics(sender) ==
    [sent |-> sender.sent_count, errors |-> sender.error_count,
     total |-> sender.sent_count + sender.error_count]

Event(ev, id) == [ev |-> ev, id |-> id]

\* the period a dispatch is for: the loop variable of run_all_periods, or the
\* argument of the call
PeriodOfCall == IF mode = "all" THEN list_periods[periodIdx] ELSE periodo

\* send_messages_for_period up to its loop: the guard, the target date, the
\* template, the query (which may fail: qerr), the early return, the cap
DispatchBegin(qerr) ==
    /\ pc = "period"
    /\ periodo' = PeriodOfCall
    /\ IF db_manager = "None" \/ ~whatsapp_sender.exists
       THEN /\ PeriodRaised(PeriodOfCall, "RuntimeError", log)
            /\ UNCHANGED <<db_queries, mensagem, data_vencimento, candidates,
                           clientes, trace>>
       ELSE IF \/ calculate_target_date_raises(PeriodOfCall)
               \/ get_message_raises(PeriodOfCall)
            THEN /\ PeriodRaised(PeriodOfCall, "ValueError", log)
                 /\ UNCHANGED <<db_queries, mensagem, data_vencimento, candidates,
                                clientes, trace>>
            ELSE LET failed == qerr \/ db_manager # "open"
                     lg == IF failed THEN log \cup {"Erro ao buscar clientes"}
                           ELSE log
                 IN  /\ data_vencimento' = calculate_target_date(PeriodOfCall, today)
                     /\ mensagem' = get_message(PeriodOfCall)
                     /\ db_queries' = db_queries + 1
                     /\ trace' = Append(trace, Event("dispatch", 0))
                     /\ \E found \in buscar_clientes_por_vencimento(
                                         ledger,
                                         calculate_target_date(PeriodOfCall, today)) :
                            candidates' = IF failed THEN <<>> ELSE found
                     /\ IF QueryErrorRaised(failed)
                        THEN /\ clientes' = <<>>
                             /\ PeriodRaised(PeriodOfCall, "Exception", lg)
                        ELSE IF candidates' = <<>>
                             THEN /\ clientes' = <<>>
                                  /\ PeriodReturned(PeriodOfCall, ZeroStats, lg)
                             ELSE /\ clientes' = Limited(candidates', max_messages)
                                  /\ pc' = "loop"
                                  /\ log' = IF Limited(candidates', max_messages)
                                                # candidates'
                                            THEN lg \cup {"Limitando envios"}
                                            ELSE lg
                                  /\ UNCHANGED <<stats, total_stats, result, raised,
                                                 db_manager, periodIdx>>
    /\ i' = 0
    /\ sent_count' = 0
    /\ error_count' = 0
    /\ skipped_count' = 0
    /\ response' = NoResponse
    /\ UNCHANGED <<environ, arg, ret, session>>
    /\ UNCHANGED <<ledger, today, op, mode, argv, max_messages, missing_vars,
                   whatsapp_sender, db_connects>>

\* one iteration of the loop over clientes: the row is passed over, or
\* send_message is called (requests.post ending in r) and the loop sleeps; an
\* exception send_message does not catch ends the dispatch
LoopIteration(r) ==
    /\ pc = "loop"
    /\ i < Len(clientes)
    /\ LET cliente == clientes[i + 1]
           sm == send_message(whatsapp_sender, cliente, r)
       IN  IF AlreadyPaid(cliente)
           THEN /\ i' = i + 1
                /\ skipped_count' = skipped_count + 1
                /\ trace' = Append(trace, Event("skip", cliente.id))
                /\ UNCHANGED <<whatsapp_sender, sent_count, error_count, response,
                               pc, stats, total_stats, result, raised, log,
                               db_manager, periodIdx>>
           ELSE IF sm.posted /\ r = OtherException
                THEN /\ response' = r
                     /\ trace' = trace \o <<Event("send", cliente.id),
                                             Event("post", cliente.id)>>
                     /\ PeriodRaised(periodo, "Exception", log)
                     /\ UNCHANGED <<whatsapp_sender, i, sent_count, error_count,
                                    skipped_count>>
                ELSE /\ i' = i + 1
                     /\ whatsapp_sender' = sm.sender
                     /\ response' = IF sm.posted THEN r ELSE NoResponse
                     /\ sent_count' = IF sm.success THEN sent_count + 1 ELSE sent_count
                     /\ error_count' = IF sm.success THEN error_count
                                       ELSE error_count + 1
                     /\ trace' = trace \o <<Event("send", cliente.id)>>
                                   \o (IF sm.posted THEN <<Event("post", cliente.id)>>
                                       ELSE <<>>)
                                   \o (IF DelayAfter(i + 1, Len(clientes))
                                       THEN <<Event("sleep", cliente.id)>> ELSE <<>>)
                     /\ UNCHANGED <<skipped_count, pc, stats, total_stats, result,
                                    raised, log, db_manager, periodIdx>>
    /\ UNCHANGED <<environ, arg, ret, session>>
    /\ UNCHANGED <<ledger, today, op, mode, argv, max_messages, missing_vars,
                   db_connects, db_queries, periodo, mensagem, data_vencimento,
                   candidates, clientes>>

\* the loop is over: send_messages_for_period returns its statistics
DispatchReturn ==
    /\ pc = "loop"
    /\ i = Len(clientes)
    /\ PeriodReturned(periodo,
                      [sent |-> sent_count, errors |-> error_count,
                       skipped |-> skipped_count, total_processed |-> Len(clientes)],
                      log)
    /\ UNCHANGED <<environ, arg, ret, session>>
    /\ UNCHANGED <<ledger, today, op, mode, argv, max_messages, missing_vars,
                   whatsapp_sender, db_connects, db_queries, periodo, mensagem,
                   data_vencimento, candidates, clientes, i, sent_count, error_count,
                   skipped_count, response, trace>>

\* ------------------------------------------------------------ reader calls
\* what a reader call leaves: the list it returns, or the exception
ReaderReturn(failed, found) ==
    IF QueryErrorRaised(failed)
    THEN [called |-> TRUE, raised |-> "Exception", value |-> <<>>]
    ELSE [called |-> TRUE, raised |-> "none",
          value |-> IF failed THEN <<>> ELSE found]

\* cliente_manager.buscar_clientes_por_vencimento(d) is called on an
\* initialized instance; the query may fail (qerr)
buscar_clientes_por_vencimento_call(d, qerr) ==
    /\ pc = "initialized"
    /\ op' = "buscar_clientes_por_vencimento"
    /\ arg' = d
    /\ db_queries' = db_queries + 1
    /\ \E found \in buscar_clientes_por_vencimento(ledger, d) :
           ret' = ReaderReturn(qerr, found)
    /\ log' = IF qerr THEN log \cup {"Erro ao buscar clientes"} ELSE log
    /\ pc' = "done"
    /\ UNCHANGED <<environ, ledger, today, mode, argv, max_messages, missing_vars,
                   db_manager, whatsapp_sender, db_connects, periodIdx, periodo,
                   mensagem, data_vencimento, candidates, clientes, i, sent_count,
                   error_count, skipped_count, response, stats, total_stats, result,
                   raised, trace, session>>

\* cliente_manager.buscar_clientes_inadimplentes(dias) is called on an
\* initialized instance; the query may fail (qerr)
buscar_clientes_inadimplentes_call(dias, qerr) ==
    /\ pc = "initialized"
    /\ op' = "buscar_clientes_inadimplentes"
    /\ arg' = dias
    /\ db_queries' = db_queries + 1
    /\ \E found \in buscar_clientes_inadimplentes(ledger, today, dias) :
           ret' = ReaderReturn(qerr, found)
    /\ log' = IF qerr THEN log \cup {"Erro ao buscar clientes inadimplentes"}
              ELSE log
    /\ pc' = "done"
    /\ UNCHANGED <<environ, ledger, today, mode, argv, max_messages, missing_vars,
                   db_manager, whatsapp_sender, db_connects, periodIdx, periodo,
                   mensagem, data_vencimento, candidates, clientes, i, sent_count,
                   error_count, skipped_count, response, stats, total_stats, result,
                   raised, trace, session>>

\* ------------------------------------------------------------ specification
Next ==
    \/ \E a \in Argvs : main(a)
    \/ TurboZap
    \/ \E cap \in Caps : run_all_periods(cap)
    \/ \E p \in PeriodArgs, cap \in Caps : run_specific_period(p, cap)
    \/ \E p \in PeriodArgs, cap \in Caps : send_messages_for_period(p, cap)
    \/ \E connected \in BOOLEAN : initialize(connected)
    \/ \E qerr \in BOOLEAN : DispatchBegin(qerr)
    \/ \E r \in Outcomes : LoopIteration(r)
    \/ DispatchReturn
    \/ \E dias \in Dias, qerr \in BOOLEAN : buscar_clientes_inadimplentes_call(dias, qerr)

Spec == Init /\ [][Next]_vars

\* ------------------------------------------------------------ the normalizer
\* the program's variables, which a function called by itself leaves alone
program ==
    <<ledger, today, pc, op, mode, argv, max_messages, missing_vars, db_manager,
      whatsapp_sender, db_connects, db_queries, periodIdx, periodo, mensagem,
      data_vencimento, candidates, clientes, i, sent_count, error_count, skipped_count,
      response, stats, total_stats, result, raised, trace, log, environ, session>>

\* raw phone numbers: two digits and a separator to write them with
PhoneChars == {"1", "9", "-"}

PhoneInputs ==
    {NullPhone}
    \cup {s \in UNION {[1..n -> PhoneChars] : n \in 0..MaxPhoneLen} :
              Cardinality({k \in 1..Len(s) : s[k] = "-"}) <= MaxSeps}

InitPhone ==
    /\ ledger = <<>>
    /\ environ = required_vars
    /\ Fresh
    /\ arg \in PhoneInputs
    /\ ret = NoReturn

\* format_phone_number(arg) is called
format_phone_number_call ==
    /\ ~ret.called
    /\ ret' = [called |-> TRUE, value |-> format_phone_number(arg)]
    /\ UNCHANGED <<program, arg>>

\* format_phone_number is called on what it returned
format_phone_number_again ==
    /\ ret.called
    /\ "again" \notin DOMAIN ret
    /\ ret' = [called |-> TRUE, value |-> ret.value,
               again |-> format_phone_number(ret.value)]
    /\ UNCHANGED <<program, arg>>

NextPhone ==
    \/ format_phone_number_call
    \/ format_phone_number_again

SpecPhone == InitPhone /\ [][NextPhone]_vars

\* ------------------------------------------------------------ the catalog
\* period codes: the characters of the catalog's keys
CodeChars == {"D", "+", "-", "0", "1", "2", "3", "4", "7"}

PeriodInputs == UNION {[1..n -> CodeChars] : n \in 0..MaxCodeLen}

InitCatalog ==
    /\ ledger = <<>>
    /\ environ = required_vars
    /\ Fresh
    /\ arg \in PeriodInputs
    /\ ret = NoReturn

\* MessageTemplates.get_message(arg) is called
get_message_call ==
    /\ ~ret.called
    /\ ret' = IF get_message_raises(arg)
              THEN [called |-> TRUE, fn |-> "get_message", raised |-> "ValueError",
                    value |-> <<>>]
              ELSE [called |-> TRUE, fn |-> "get_message", raised |-> "none",
                    value |-> get_message(arg)]
    /\ UNCHANGED <<program, arg>>

\* MessageTemplates.get_description(arg) is called
get_description_call ==
    /\ ~ret.called
    /\ ret' = [called |-> TRUE, fn |-> "get_description", raised |-> "none",
               value |-> get_description(arg)]
    /\ UNCHANGED <<program, arg>>

NextCatalog ==
    \/ get_message_call
    \/ get_description_call

SpecCatalog == InitCatalog /\ [][NextCatalog]_vars

\* ------------------------------------------------------------ the renderer
\* templates given to format_message: two of the catalog, one with a field
\* format is not given, the empty one
TemplateInputs ==
    {StdMessage, get_message(P_D21), <<"txt", F_nome, "txt", "{empresa}">>, <<>>}

\* rows given to format_message
ClienteInputs ==
    [cliente_nome : {"ok", "None", "missing"},
     total : {"ok", "None", "bad", "missing"},
     data_vencimento : {"ok", "None", "missing"},
     link_pagamento : {"ok", "None", "missing"}]

InitRender ==
    /\ ledger = <<>>
    /\ environ = required_vars
    /\ Fresh
    /\ arg \in [template : TemplateInputs, cliente : ClienteInputs]
    /\ ret = NoReturn

\* format_message(arg.template, arg.cliente) is called
format_message_call ==
    /\ ~ret.called
    /\ ret' = IF format_message_raises(arg.template, arg.cliente)
              THEN [called |-> TRUE, raised |-> "KeyError", value |-> <<>>]
              ELSE [called |-> TRUE, raised |-> "none",
                    value |-> format_message(arg.template, arg.cliente)]
    /\ UNCHANGED <<program, arg>>

NextRender == format_message_call

SpecRender == InitRender /\ [][NextRender]_vars

\* ------------------------------------------------------------ repeated dispatch
\* rows due today with identifier id, some of equal total
RepeatRows(id) ==
    {[id |-> id, telefone |-> PhoneOK, data_vencimento |-> Today0, total |-> t,
      status |-> st, pago |-> "0", nao_pago |-> t] :
        t \in {100, 150}, st \in {"PENDING", "ACQUITTED"}}

RepeatTables ==
    UNION {{t \in [1..n -> UNION {RepeatRows(k) : k \in 1..n}] :
               \A k \in 1..n : t[k].id = k} : n \in 0..MaxRepeatRows}

InitRepeat ==
    /\ ledger \in RepeatTables
    /\ environ = required_vars
    /\ Fresh
    /\ arg = <<>>
    /\ ret = NoReturn

\* the caller calls send_messages_for_period once more, with the arguments of
\* the call that has returned
send_messages_for_period_again ==
    /\ pc = "done"
    /\ op = "send_messages_for_period"
    /\ raised = "none"
    /\ Cardinality({k \in 1..Len(trace) : trace[k].ev = "call"}) < MaxRepeats
    /\ pc' = "period"
    /\ trace' = Append(trace, Event("call", 0))
    /\ UNCHANGED <<environ, arg, ret, session>>
    /\ UNCHANGED <<ledger, today, op, mode, argv, max_messages, missing_vars,
                   db_manager, whatsapp_sender, db_connects, db_queries, periodIdx,
                   periodo, mensagem, data_vencimento, candidates, clientes, i,
                   sent_count, error_count, skipped_count, response, stats,
                   total_stats, result, raised, log>>

NextRepeat ==
    \/ TurboZap
    \/ \E connected \in BOOLEAN : initialize(connected)
    \/ \E cap \in {None, 1} : send_messages_for_period(P_D0, cap)
    \/ \E qerr \in BOOLEAN : DispatchBegin(qerr)
    \/ \E r \in Responses : LoopIteration(r)
    \/ DispatchReturn
    \/ send_messages_for_period_again

SpecRepeat == InitRepeat /\ [][NextRepeat]_vars

\* ------------------------------------------------------------ the clock
\* open invoices with identifier id, due today or in three days
ClockRows(id) ==
    {[id |-> id, telefone |-> PhoneOK, data_vencimento |-> d, total |-> TotalOf(id),
      status |-> "PENDING", pago |-> "0", nao_pago |-> TotalOf(id)] :
        d \in DueDates}

ClockTables ==
    UNION {{t \in [1..n -> UNION {ClockRows(k) : k \in 1..n}] :
               \A k \in 1..n : t[k].id = k} : n \in 0..MaxClockRows}

InitClock ==
    /\ ledger \in ClockTables
    /\ environ = required_vars
    /\ Fresh
    /\ arg = <<>>
    /\ ret = NoReturn

\* midnight passes while run_all_periods is under way: datetime.now(), read
\* anew by every calculate_target_date, falls on the next day
Midnight ==
    /\ mode = "all"
    /\ pc \in {"period", "loop"}
    /\ today < Today0 + MaxMidnights
    /\ today' = today + 1
    /\ UNCHANGED <<environ, arg, ret, session>>
    /\ UNCHANGED <<ledger, pc, op, mode, argv, max_messages, missing_vars,
                   db_manager, whatsapp_sender, db_connects, db_queries, periodIdx,
                   periodo, mensagem, data_vencimento, candidates, clientes, i,
                   sent_count, error_count, skipped_count, response, stats,
                   total_stats, result, raised, trace, log>>

NextClock ==
    \/ TurboZap
    \/ \E cap \in {None} : run_all_periods(cap)
    \/ \E connected \in BOOLEAN : initialize(connected)
    \/ \E qerr \in BOOLEAN : DispatchBegin(qerr)
    \/ \E r \in {[kind |-> "http", status |-> 200],
                 [kind |-> "Timeout", status |-> 0]} : LoopIteration(r)
    \/ DispatchReturn
    \/ Midnight

SpecClock == InitClock /\ [][NextClock]_vars

\* ------------------------------------------------------------ after a run
\* send_messages_for_period(p, cap) is called on an instance whose run mode
\* has returned or raised: close() has closed cursor and connection, and
\* self.db_manager is the DatabaseManager it was
send_messages_for_period_after_run(p, cap) ==
    /\ pc = "done"
    /\ op \in {"run_all_periods", "run_specific_period"}
    /\ op' = "send_messages_for_period"
    /\ mode' = "direct"
    /\ periodo' = p
    /\ max_messages' = cap
    /\ pc' = "period"
    /\ raised' = "none"
    /\ result' = NoStats
    /\ UNCHANGED <<environ, arg, ret, session>>
    /\ UNCHANGED <<ledger, today, argv, missing_vars, db_manager, whatsapp_sender,
                   db_connects, db_queries, periodIdx, mensagem, data_vencimento,
                   candidates, clientes, i, sent_count, error_count, skipped_count,
                   response, stats, total_stats, trace, log>>

NextAfterRun ==
    \/ TurboZap
    \/ \E cap \in {None} : run_all_periods(cap)
    \/ \E cap \in {None} : run_specific_period(P_D0, cap)
    \/ \E connected \in BOOLEAN : initialize(connected)
    \/ \E cap \in {None, 1} : send_messages_for_period(P_D0, cap)
    \/ \E qerr \in BOOLEAN : DispatchBegin(qerr)
    \/ \E r \in {[kind |-> "http", status |-> 200],
                 [kind |-> "Timeout", status |-> 0]} : LoopIteration(r)
    \/ DispatchReturn
    \/ \E cap \in {None, 1} : send_messages_for_period_after_run(P_D0, cap)

\* the tables are those of the runs the clock advances in
SpecAfterRun == InitClock /\ [][NextAfterRun]_vars

\* ------------------------------------------------------------ the readers
\* rows of caz_receber with identifier id for the readers: open invoices of
\* two totals, and rows that fail one test of the WHERE clauses
ReaderRows(id) ==
    {[id |-> id, telefone |-> PhoneOK, data_vencimento |-> d, total |-> t,
      status |-> st, pago |-> "0", nao_pago |-> t] :
        d \in DueDates, t \in {100, 150}, st \in {"PENDING", "ACQUITTED"}}
    \cup {[id |-> id, telefone |-> ph, data_vencimento |-> Today0, total |-> 100,
           status |-> "PENDING", pago |-> "0", nao_pago |-> 100] :
             ph \in {NullPhone, <<>>}}
    \cup {[id |-> id, telefone |-> PhoneOK, data_vencimento |-> Today0, total |-> 100,
           status |-> "PENDING", pago |-> pg, nao_pago |-> np] :
             pg \in {"0", "1"}, np \in {0, 40}}

ReaderTables ==
    UNION {{t \in [1..n -> UNION {ReaderRows(k) : k \in 1..n}] :
               \A k \in 1..n : t[k].id = k} : n \in 0..MaxReaderRows}

InitReader ==
    /\ ledger \in ReaderTables
    /\ environ = required_vars
    /\ Fresh
    /\ arg = <<>>
    /\ ret = NoReturn

NextReader ==
    \/ TurboZap
    \/ \E connected \in BOOLEAN : initialize(connected)
    \/ \E d \in DueDates, qerr \in BOOLEAN : buscar_clientes_por_vencimento_call(d, qerr)
    \/ \E dias \in Dias, qerr \in BOOLEAN : buscar_clientes_inadimplentes_call(dias, qerr)

SpecReader == InitReader /\ [][NextReader]_vars

\* ------------------------------------------------------------ the web app
MaxRequests == 2

\* the configured credentials, and one other value of each form field
LOGIN_USER == "LOGIN_USER"
LOGIN_PASSWORD == "LOGIN_PASSWORD"
Usernames == {LOGIN_USER, "other user"}
Passwords == {LOGIN_PASSWORD, "other password"}

\* what a view function may show: the two tables and the dashboard page
Receivables == "a_receber_turbo"
Customers == "clientes_turbo"
Dashboard == "turbox.html"

\* the decorated view functions
Decorated ==
    {"index", "sin_module", "turbochat", "turbozap", "buscar", "buscar_por_nome",
     "listar_clientes", "turbochat_message"}

Route(rule, methods, f, reads) ==
    [rule |-> rule, methods |-> methods, f |-> f, reads |-> reads]

\* the url map, login and logout apart: rule, methods, view function, what it shows
Routes ==
    {Route("/turbox", {"GET"}, "turbox_dashboard", {Dashboard}),
     Route("/", {"GET"}, "index", {Dashboard}),
     Route("/health", {"GET"}, "health_check", {}),
     Route("/sin", {"GET"}, "sin_module", {}),
     Route("/turbochat", {"GET"}, "turbochat", {}),
     Route("/turbozap", {"GET"}, "turbozap", {}),
     Route("/check-db", {"GET"}, "check_db", {}),
     Route("/test-post", {"POST"}, "test_post", {}),
     Route("/buscar", {"POST"}, "buscar", {Receivables, Customers}),
     Route("/buscar_por_nome", {"POST"}, "buscar_por_nome", {Receivables, Customers}),
     Route("/listar-clientes", {"GET"}, "listar_clientes", {Receivables, Customers}),
     Route("/turbochat/message", {"POST"}, "turbochat_message", {Receivables, Customers}),
     Route("/fatura/<int:fatura_id>", {"GET"}, "detalhes_fatura", {Receivables, Customers})}

\* the decorator turns the request away
login_required(s) == "logged_in" \notin s

Request(rule, method, form) == [rule |-> rule, method |-> method, form |-> form]

Redirect(location) == [called |-> TRUE, redirect |-> location]
Rendered(f) == [called |-> TRUE, f |-> f]

\* what a request leaves alone
WebFrame ==
    UNCHANGED <<ledger, today, pc, op, mode, argv, max_messages, missing_vars,
                db_manager, whatsapp_sender, db_connects, db_queries, periodIdx,
                periodo, mensagem, data_vencimento, candidates, clientes, i,
                sent_count, error_count, skipped_count, response, stats, total_stats,
                result, raised, log, environ>>

\* GET /login
login_get ==
    /\ Len(trace) < MaxRequests
    /\ arg' = Request("/login", "GET", <<>>)
    /\ ret' = Rendered("login")
    /\ trace' = Append(trace, Event("handler", "login"))
    /\ UNCHANGED session
    /\ WebFrame

\* POST /login with a form
login(username, password) ==
    /\ Len(trace) < MaxRequests
    /\ arg' = Request("/login", "POST", [username |-> username, password |-> password])
    /\ IF username = LOGIN_USER /\ password = LOGIN_PASSWORD
       THEN /\ session' = session \cup {"logged_in", "username"}
            /\ ret' = Redirect("index")
       ELSE /\ ret' = Rendered("login")
            /\ UNCHANGED session
    /\ trace' = Append(trace, Event("handler", "login"))
    /\ WebFrame

\* GET /logout
logout ==
    /\ Len(trace) < MaxRequests
    /\ arg' = Request("/logout", "GET", <<>>)
    /\ session' = {}
    /\ ret' = Redirect("login")
    /\ trace' = Append(trace, Event("handler", "logout"))
    /\ WebFrame

\* a request to any other rule, with a method the rule takes
request(route, method) ==
    /\ Len(trace) < MaxRequests
    /\ method \in route.methods
    /\ arg' = Request(route.rule, method, <<>>)
    /\ IF route.f \in Decorated /\ login_required(session)
       THEN /\ ret' = Redirect("login")
            /\ trace' = Append(trace, Event("redirect", route.f))
       ELSE /\ ret' = Rendered(route.f)
            /\ trace' = Append(trace, Event("handler", route.f))
    /\ UNCHANGED session
    /\ WebFrame

InitWeb ==
    /\ ledger = <<>>
    /\ environ = required_vars
    /\ Fresh
    /\ arg = <<>>
    /\ ret = NoReturn

NextWeb ==
    \/ login_get
    \/ \E username \in Usernames, password \in Passwords : login(username, password)
    \/ logout
    \/ \E route \in Routes, method \in {"GET", "POST"} : request(route, method)

SpecWeb == InitWeb /\ [][NextWeb]_vars

\* ------------------------------------------------------------ observations
Range(s) == {s[k] : k \in 1..Len(s)}

Min(a, b) == IF a < b THEN a ELSE b

\* where the trace holds an event of kind ev
Positions(ev) == {k \in 1..Len(trace) : trace[k].ev = ev}

\* where the dispatch under way, or the last one, starts in the trace
LastDispatch ==
    IF Positions("dispatch") = {} THEN 0
    ELSE CHOOSE k \in Positions("dispatch") : \A j \in Positions("dispatch") : j <= k

\* the loop of the dispatch under way is past its last row
LoopOver == pc = "loop" /\ i = Len(clientes)

IsRowEvent(e) == e.ev \in {"skip", "send"}

\* identifiers of the rows the dispatch under way has processed, in order
ProcessedIds ==
    LET seg == SelectSeq(SubSeq(trace, LastDispatch + 1, Len(trace)), IsRowEvent)
    IN  [k \in 1..Len(seg) |-> seg[k].id]

\* sleeps between positions a and b of the trace
Sleeps(a, b) == Cardinality({k \in Positions("sleep") : a < k /\ k < b})

\* the loop is about to call send_message for a row
AboutToSend ==
    /\ pc = "loop"
    /\ i < Len(clientes)
    /\ clientes[i + 1].status # "ACQUITTED"

\* ------------------------------------------------------------ claims
\* C1: every statistics value send_messages_for_period returns holds sent,
\* errors, skipped and total_processed, and sent + errors + skipped equals
\* total_processed.
C1_StatisticsAddUp ==
    "none" \notin DOMAIN stats =>
        /\ {"sent", "errors", "skipped", "total_processed"} \subseteq DOMAIN stats
        /\ stats.sent + stats.errors + stats.skipped = stats.total_processed

\* C2: a row whose status is ACQUITTED is counted as skipped, once, and neither
\* send_message, nor a gateway request, nor a sleep is ever made for it.
C2_AcquittedRowSkipped ==
    /\ \A k \in 1..Len(trace) :
          trace[k].ev \in {"send", "post", "sleep"} =>
              ledger[trace[k].id].status # "ACQUITTED"
    /\ pc = "loop" =>
          /\ skipped_count =
                Cardinality({k \in 1..i : clientes[k].status = "ACQUITTED"})
          /\ \A k \in 1..i :
                clientes[k].status = "ACQUITTED" =>
                    Cardinality({j \in Positions("skip") :
                                    j > LastDispatch /\ trace[j].id = clientes[k].id}) = 1

C2_Witness ==
    /\ pc = "done"
    /\ Positions("skip") # {}
    /\ Positions("post") # {}
    /\ skipped_count = 1

\* C3: with a cap N >= 0 the dispatch processes exactly the first
\* min(N, len(candidates)) rows of the reader's list, in order, and reports
\* that number as total_processed.
C3_CapKeepsHead ==
    /\ (LoopOver /\ max_messages # None) =>
          ProcessedIds =
              [k \in 1..Min(max_messages, Len(candidates)) |-> candidates[k].id]
    /\ (mode = "direct" /\ pc = "done" /\ max_messages # None
            /\ "total_processed" \in DOMAIN stats) =>
          stats.total_processed = Min(max_messages, Len(candidates))

\* C4: in one dispatch every send that another send follows is followed by
\* exactly one sleep, and no sleep follows the last send of the batch.
C4_SleepAfterEverySendButLast ==
    LoopOver =>
        LET sends == {k \in Positions("send") : k > LastDispatch}
        IN  \A a \in sends :
                LET later == {b \in sends : b > a}
                IN  IF later # {}
                    THEN Sleeps(a, CHOOSE b \in later : \A c \in later : b <= c) = 1
                    ELSE Sleeps(a, Len(trace) + 1) = 0

\* C5: between any two consecutive gateway requests of a run there is a sleep.
C5_SleepBetweenRequests ==
    \A a, b \in Positions("post") :
        (a < b /\ ~\E c \in Positions("post") : a < c /\ c < b) => Sleeps(a, b) >= 1

\* C6: a send_message call for a row whose phone normalizes to the empty string
\* returns failed, adds one to the sender's error counter, raises nothing and
\* issues no gateway request.
C6_EmptyPhoneCounted ==
    [][(AboutToSend /\ format_phone_number(clientes[i + 1].telefone) = <<>>) =>
          /\ error_count' = error_count + 1
          /\ get_statistics(whatsapp_sender').errors =
                get_statistics(whatsapp_sender).errors + 1
          /\ Len(SelectSeq(trace', IsRowEvent)) = Len(SelectSeq(trace, IsRowEvent)) + 1
          /\ response' = NoResponse
          /\ raised' = "none"]_vars

\* C7: a send_message call for a row with a non-empty normalized phone returns
\* sent and adds one to the sent counter exactly when the gateway answers 200
\* or 201; on any other status, a timeout or another transport failure it
\* returns failed, adds one to the error counter, leaves the sent counter and
\* raises nothing.
C7_GatewayAnswerCounted ==
    [][(/\ AboutToSend
        /\ format_phone_number(clientes[i + 1].telefone) # <<>>
        /\ response' \in Responses) =>
          /\ raised' = "none"
          /\ pc' = "loop"
          /\ IF response'.kind = "http" /\ response'.status \in {200, 201}
             THEN /\ sent_count' = sent_count + 1
                  /\ error_count' = error_count
                  /\ whatsapp_sender' =
                        [whatsapp_sender EXCEPT !.sent_count = @ + 1]
             ELSE /\ sent_count' = sent_count
                  /\ error_count' = error_count + 1
                  /\ whatsapp_sender' =
                        [whatsapp_sender EXCEPT !.error_count = @ + 1]]_vars

C7_Witness ==
    /\ response.kind = "Timeout"
    /\ whatsapp_sender.sent_count = 1
    /\ whatsapp_sender.error_count = 1
    /\ sent_count = 1
    /\ error_count = 1

\* C8 as stated: the template of every dispatched catalog period is non-empty
\* and holds all four replacement fields.
C8_AllFourPlaceholders ==
    trace # <<>> => Len(mensagem) > 0 /\ Placeholders \subseteq Range(mensagem)

\* C8 as amended: the template of every dispatched catalog period is non-empty
\* and holds the name, amount and due-date fields; it holds the payment-link
\* field for every period but D+21, whose template has none.
C8_PlaceholdersButLinkOfD21 ==
    trace # <<>> =>
        /\ Len(mensagem) > 0
        /\ {F_nome, F_valor, F_vencimento} \subseteq Range(mensagem)
        /\ F_link \in Range(mensagem) <=> periodo # P_D21

C8_Witness ==
    /\ pc = "done"
    /\ periodo = P_D21
    /\ trace # <<>>
    /\ F_link \notin Range(mensagem)
    /\ Len(total_stats.periods) = Len(list_periods)

\* C9: with no period flag on the command line, main dispatches every period of
\* the catalog in catalog order (unless startup itself fails).
C9_NoFlagRunsEveryPeriod ==
    (op = "main" /\ pc = "done" /\ ~argv.flag) =>
        \/ "error" \in DOMAIN result
        \/ /\ "periods" \in DOMAIN result
           /\ [k \in 1..Len(result.periods) |-> result.periods[k].periodo] = list_periods

\* an invalid period code was given to main, which has returned
InvalidPeriodGiven ==
    /\ op = "main"
    /\ pc = "done"
    /\ argv.flag
    /\ argv.periodo # <<>>
    /\ ~\E k \in 1..Len(TEMPLATES) : TEMPLATES[k].periodo = argv.periodo

NoDatabaseOrNetworkActivity ==
    db_connects = 0 /\ db_queries = 0 /\ Positions("post") = {} /\ db_manager = "None"

RunInitialized == mode \in {"all", "specific"} /\ whatsapp_sender.exists

\* C11: once run_all_periods or run_specific_period has returned or raised
\* after a successful initialize(), the connection it opened is closed, also
\* when a dispatch raised.
C11_ConnectionReleased ==
    (pc = "done" /\ RunInitialized) => db_manager = "closed"

C11_Witness ==
    /\ pc = "done"
    /\ op = "run_specific_period"
    /\ RunInitialized
    /\ raised = "Exception"
    /\ Positions("post") # {}
    /\ db_manager = "closed"

\* C12: whenever initialize() succeeded, a run mode returns statistics holding
\* sent, errors and skipped: no error of a row or of a period is raised to the
\* caller.
C12_RunsAlwaysReturnStatistics ==
    (pc = "done" /\ RunInitialized) =>
        /\ raised = "none"
        /\ {"sent", "errors", "skipped"} \subseteq DOMAIN result

\* C13: when a dispatch of run_all_periods ends in an exception, the exception
\* becomes that period's entry of the breakdown, nothing is raised and the run
\* goes on with the next period; a run that has returned has an entry for
\* every period of the catalog, in catalog order, each one dispatched.
C13_PeriodErrorRecorded ==
    [][/\ (mode = "all" /\ pc = "loop" /\ response' = OtherException) =>
            /\ total_stats'.periods =
                  Append(total_stats.periods,
                         [periodo |-> list_periods[periodIdx],
                          stats |-> [error |-> "Exception"]])
            /\ raised' = "none"
            /\ IF periodIdx < Len(list_periods)
               THEN pc' = "period" /\ periodIdx' = periodIdx + 1
               ELSE pc' = "done"
       /\ (pc' = "done" /\ mode' = "all" /\ whatsapp_sender'.exists) =>
            /\ "periods" \in DOMAIN result'
            /\ [k \in 1..Len(result'.periods) |-> result'.periods[k].periodo]
                  = list_periods
            /\ Cardinality({k \in 1..Len(trace') : trace'[k].ev = "dispatch"})
                  = Len(list_periods)]_vars

C13_Witness ==
    /\ pc = "done"
    /\ mode = "all"
    /\ "periods" \in DOMAIN result
    /\ "error" \in DOMAIN result.periods[1].stats
    /\ "sent" \in DOMAIN result.periods[2].stats
    /\ result.periods[2].stats.sent = 1

\* C14: when send_message fails for a row (its phone normalizes to nothing, or
\* the gateway answers another status than 200 or 201, times out or fails in
\* transport), the dispatch counts one error, nothing else, and stays in its
\* loop at the next row; the rows processed so far are always the head of the
\* list, in order.
C14_FailureCountedLoopGoesOn ==
    [][/\ (/\ AboutToSend
           /\ \/ format_phone_number(clientes[i + 1].telefone) = <<>>
              \/ /\ response' \in Responses
                 /\ ~(response'.kind = "http" /\ response'.status \in {200, 201})) =>
            /\ error_count' = error_count + 1
            /\ sent_count' = sent_count
            /\ skipped_count' = skipped_count
            /\ raised' = "none"
            /\ pc' = "loop"
            /\ i' = i + 1
            /\ clientes' = clientes
       /\ pc' = "loop" => ProcessedIds' = [k \in 1..i' |-> clientes'[k].id]]_vars

C14_Witness ==
    /\ pc = "loop"
    /\ i = 2
    /\ i = Len(clientes)
    /\ error_count = 2
    /\ clientes[1].telefone = PhoneBad
    /\ response.kind = "http"
    /\ response.status = 500

\* the digits of s, in order
RECURSIVE DigitsOf(_)
DigitsOf(s) ==
    IF s = <<>> THEN <<>>
    ELSE (IF Head(s) \in Digits THEN <<Head(s)>> ELSE <<>>) \o DigitsOf(Tail(s))

\* C15: format_phone_number returns the digits of its argument, prefixed with
\* 55 when they are 11 and start with 11, with 5511 when they are 10, and as
\* they are otherwise; for an empty or absent argument it returns the empty
\* string.
C15_NormalizePhone ==
    ret.called =>
        LET d == IF arg = NullPhone THEN <<>> ELSE DigitsOf(arg)
        IN  /\ ret.value =
                  IF Len(d) = 11 /\ d[1] = "1" /\ d[2] = "1"
                  THEN <<"5", "5">> \o d
                  ELSE IF Len(d) = 10 THEN <<"5", "5", "1", "1">> \o d
                       ELSE d
            /\ arg \in {NullPhone, <<>>} => ret.value = <<>>

C15_Witness ==
    /\ ret.called
    /\ Len(arg) = 11
    /\ arg[3] = "-"
    /\ arg[1] = "9"
    /\ ret.value = <<"5", "5", "1", "1">> \o DigitsOf(arg)

\* C16: get_message raises ValueError for every period code that is no key of
\* the catalog and returns the template stored under the key otherwise;
\* get_description never raises and returns one fixed text for every code
\* that is no key.
C16_CatalogLookups ==
    ret.called =>
        LET keys == {k \in 1..Len(TEMPLATES) : TEMPLATES[k].periodo = arg}
        IN  /\ ret.fn = "get_message" =>
                  IF keys = {}
                  THEN ret.raised = "ValueError"
                  ELSE /\ ret.raised = "none"
                       /\ \A k \in keys : ret.value = TEMPLATES[k].message
            /\ ret.fn = "get_description" =>
                  /\ ret.raised = "none"
                  /\ IF keys = {}
                     THEN ret.value = "Periodo desconhecido"
                     ELSE \A k \in keys : ret.value = TEMPLATES[k].description

C16_Witness ==
    /\ ret.called
    /\ ret.fn = "get_message"
    /\ arg = <<"D", "+", "2">>
    /\ ret.raised = "ValueError"

\* TurboZap() was called, by main or by a program using the class
Constructing == pc # "start" /\ (op = "main" => argv.len # 1)

\* C17: with a required setting absent, TurboZap() ends in the ValueError of
\* validate_config naming the absent settings (main returns it as its error),
\* and no connection attempt, query or gateway request is made.
C17_MissingSettingFailsFirst ==
    (Constructing /\ environ # required_vars) =>
        /\ pc = "done"
        /\ missing_vars = required_vars \ environ
        /\ IF op = "main"
           THEN result = [error |-> "ValueError"] /\ raised = "none"
           ELSE op = "TurboZap" /\ raised = "ValueError"
        /\ NoDatabaseOrNetworkActivity
        /\ trace = <<>>

C17_Witness ==
    /\ op = "TurboZap"
    /\ pc = "done"
    /\ environ = required_vars \ {"EVOLUTION_API_KEY"}
    /\ raised = "ValueError"
    /\ missing_vars = {"EVOLUTION_API_KEY"}

\* the connection was attempted and could not be established
ConnectFailed == db_connects > 0 /\ db_manager = "None"

\* C18: when the connection cannot be established, run_all_periods and
\* run_specific_period return an error result, raise nothing, and no query and
\* no gateway request is made for any period.
C18_ConnectFailureReported ==
    (mode \in {"all", "specific"} /\ ConnectFailed) =>
        /\ pc = "done"
        /\ result = [error |-> "Falha na inicializacao"]
        /\ raised = "none"
        /\ db_queries = 0
        /\ trace = <<>>

C18_Witness ==
    /\ op = "run_all_periods"
    /\ ConnectFailed
    /\ pc = "done"
    /\ "error" \in DOMAIN result
    /\ "Erro ao inicializar" \in log

\* the table holds candidates for date d, so only a failed query returns none
HasCandidates(d) == <<>> \notin buscar_clientes_por_vencimento(ledger, d)

\* C19: when its query fails, a reader returns the empty list and raises
\* nothing: the dispatch of that period returns zero counts with no gateway
\* request made, and run_all_periods records them and goes on with the next
\* period; buscar_clientes_inadimplentes returns the empty list as well.
C19_QueryErrorYieldsEmpty ==
    [][/\ (/\ pc = "period"
           /\ db_queries' = db_queries + 1
           /\ HasCandidates(data_vencimento')
           /\ candidates' = <<>>) =>
            /\ "Erro ao buscar clientes" \in log'
            /\ raised' = "none"
            /\ stats' = ZeroStats
            /\ trace' = Append(trace, Event("dispatch", 0))
            /\ whatsapp_sender' = whatsapp_sender
            /\ IF mode = "all"
               THEN /\ total_stats' =
                          [total_stats EXCEPT
                              !.periods = Append(@, [periodo |-> list_periods[periodIdx],
                                                     stats |-> ZeroStats])]
                    /\ IF periodIdx < Len(list_periods)
                       THEN pc' = "period" /\ periodIdx' = periodIdx + 1
                       ELSE pc' = "done"
               ELSE pc' = "done" /\ result' = ZeroStats
       /\ (/\ op' = "buscar_clientes_inadimplentes"
           /\ "Erro ao buscar clientes inadimplentes" \in log') =>
            /\ ret' = [called |-> TRUE, raised |-> "none", value |-> <<>>]
            /\ raised' = "none"
            /\ trace' = trace]_vars

C19_Witness ==
    /\ pc = "done"
    /\ mode = "all"
    /\ "periods" \in DOMAIN result
    /\ HasCandidates(Today0 + 3)
    /\ result.periods[1].stats = ZeroStats
    /\ "sent" \in DOMAIN result.periods[2].stats
    /\ result.periods[2].stats.sent = 1
    /\ "Erro ao buscar clientes" \in log

\* C20: when its query is executed, buscar_clientes_por_vencimento returns the
\* rows of the table, each once, whose due date is the given date, whose phone
\* is neither NULL nor empty, whose pago is '0' and whose unpaid amount is
\* above zero, and no other row, in descending order of total.
C20_DueRowsExactly ==
    (/\ ret.called
     /\ op = "buscar_clientes_por_vencimento"
     /\ "Erro ao buscar clientes" \notin log) =>
        LET v == ret.value
            due == {k \in 1..Len(ledger) :
                      /\ ledger[k].data_vencimento = arg
                      /\ ledger[k].telefone \notin {NullPhone, <<>>}
                      /\ ledger[k].pago = "0"
                      /\ ledger[k].nao_pago > 0}
        IN  /\ ret.raised = "none"
            /\ {v[k].id : k \in 1..Len(v)} = due
            /\ Len(v) = Cardinality(due)
            /\ \A k \in 1..Len(v) :
                  /\ v[k].telefone = ledger[v[k].id].telefone
                  /\ v[k].data_vencimento = ledger[v[k].id].data_vencimento
                  /\ v[k].total = ledger[v[k].id].total
                  /\ v[k].status = ledger[v[k].id].status
            /\ \A a, b \in 1..Len(v) : a < b => v[a].total >= v[b].total

C20_Witness ==
    /\ ret.called
    /\ op = "buscar_clientes_por_vencimento"
    /\ "Erro ao buscar clientes" \notin log
    /\ Len(ret.value) = 2
    /\ ret.value[1].id = 2
    /\ ledger[1].total = 100
    /\ ledger[2].total = 150

\* the days the catalog's periods lie after the due date
DaysAfterDue(p) ==
    CASE p = P_D3 -> -3 [] p = P_D0 -> 0 [] p = P_D1 -> 1
      [] p = P_D7 -> 7 [] p = P_D14 -> 14 [] p = P_D21 -> 21

\* C21: the target date of every dispatched catalog period is today plus N
\* for D-N, today minus N for D+N, and today for the due-today period D+0.
C21_TargetDateFollowsOffset ==
    (trace # <<>> /\ periodo \in Range(list_periods)) =>
        data_vencimento = today - DaysAfterDue(periodo)

C21_Witness ==
    /\ mode = "all"
    /\ pc = "loop"
    /\ periodo = P_D3
    /\ data_vencimento = today + 3
    /\ Len(clientes) = 2

\* the row has every field template.format is given, in a shape it accepts
RowWellFormed(cliente) ==
    /\ cliente.cliente_nome # "missing"
    /\ cliente.total = "ok"
    /\ cliente.data_vencimento = "ok"
    /\ cliente.link_pagamento # "missing"

\* C22: format_message returns the template with name, amount, due date and
\* payment link put in; when a field of the row is missing or malformed it
\* returns the template unchanged and raises nothing.
C22_RenderFallsBack ==
    (ret.called /\ \A k \in 1..Len(arg.template) :
                      arg.template[k] \in Placeholders \cup {"txt"}) =>
        /\ ret.raised = "none"
        /\ IF RowWellFormed(arg.cliente)
           THEN /\ Len(ret.value) = Len(arg.template)
                /\ \A k \in 1..Len(arg.template) :
                      IF arg.template[k] = "txt" THEN ret.value[k] = "txt"
                      ELSE ret.value[k] \notin Placeholders
           ELSE ret.value = arg.template

\* the catalog's periods in the order they are defined
CatalogOrder == <<P_D3, P_D0, P_D1, P_D7, P_D14, P_D21>>

\* C23: run_all_periods dispatches D-3, D+0, D+1, D+7, D+14, D+21 in this
\* order, each once: a dispatch begins only when the one before has left its
\* entry, and a run that has returned has dispatched all six.
C23_PeriodsInCatalogOrder ==
    (mode = "all" /\ whatsapp_sender.exists) =>
        LET entries == total_stats.periods
            begun == Cardinality(Positions("dispatch"))
        IN  /\ [k \in 1..Len(entries) |-> entries[k].periodo]
                  = SubSeq(CatalogOrder, 1, Len(entries))
            /\ begun = Len(entries) + (IF pc = "loop" THEN 1 ELSE 0)
            /\ pc = "loop" => periodo = CatalogOrder[Len(entries) + 1]
            /\ pc = "done" => Len(entries) = Len(CatalogOrder)

C23_Witness ==
    /\ mode = "all"
    /\ pc = "loop"
    /\ periodo = P_D0
    /\ Len(total_stats.periods) = 1
    /\ total_stats.periods[1].periodo = P_D3
    /\ "sent" \in DOMAIN total_stats.periods[1].stats
    /\ total_stats.periods[1].stats.sent = 1

\* identifiers of the rows send_message was called for between positions a
\* and b of the trace
Attempts(a, b) ==
    LET seg == SelectSeq(SubSeq(trace, a + 1, b - 1), LAMBDA e : e.ev = "send")
    IN  [k \in 1..Len(seg) |-> seg[k].id]

\* C24: a dispatch repeated for the same period on the same day, with no query
\* failing and the table unchanged, calls send_message for the same rows in
\* the same order as the dispatch before.
C24_RepeatSendsSameRows ==
    (/\ pc = "done"
     /\ Positions("call") # {}
     /\ "Erro ao buscar clientes" \notin log) =>
        \A c \in Positions("call") :
            LET before == {k \in Positions("call") \cup {0} : k < c}
                after == {k \in Positions("call") \cup {Len(trace) + 1} : k > c}
                a == CHOOSE k \in before : \A j \in before : j <= k
                b == CHOOSE k \in after : \A j \in after : k <= j
            IN  Attempts(a, c) = Attempts(c, b)

\* positions of the send_message calls of the dispatch under way
SendsOfDispatch == {k \in Positions("send") : k > LastDispatch}

\* C25: a dispatch calls send_message at most once for a row, so at most as
\* many times as the reader returned rows, and at most max_messages times
\* when a cap is passed.
C25_SendsBounded ==
    /\ \A a, b \in SendsOfDispatch : trace[a].id = trace[b].id => a = b
    /\ Cardinality(SendsOfDispatch) <= Len(candidates)
    /\ max_messages # None => Cardinality(SendsOfDispatch) <= max_messages

\* C26: in one run of run_all_periods no invoice is the subject of two gateway
\* requests, whatever the table holds and whenever midnight passes.
C26_NoInvoiceSentTwice ==
    mode = "all" =>
        \A a, b \in Positions("post") : trace[a].id = trace[b].id => a = b

\* C27: when run_all_periods has returned after a successful initialize(), the
\* sent total of its result is the sender's sent counter, the number of
\* requests the gateway answered with 200 or 201.
C27_SentTotalIsSenderCount ==
    (mode = "all" /\ pc = "done" /\ whatsapp_sender.exists) =>
        /\ "sent" \in DOMAIN result
        /\ result.sent = get_statistics(whatsapp_sender).sent

\* C28: called on an instance that holds no open connection, be it before
\* initialize() or after a run mode has closed it, send_messages_for_period
\* raises RuntimeError and makes no query and no gateway request.
C28_NoConnectionRaises ==
    [][(pc = "period" /\ mode = "direct" /\ db_manager # "open") =>
          /\ raised' = "RuntimeError"
          /\ db_queries' = db_queries
          /\ trace' = trace]_vars

\* C29: format_phone_number applied to its own result returns that result; no
\* result has exactly 10 digits, or exactly 11 digits that start with 11.
C29_NormalizeIdempotent ==
    /\ "again" \in DOMAIN ret => ret.again = ret.value
    /\ ret.called =>
          /\ \A k \in 1..Len(ret.value) : ret.value[k] \in Digits
          /\ Len(ret.value) # 10
          /\ ~(Len(ret.value) = 11 /\ ret.value[1] = "1" /\ ret.value[2] = "1")

C29_Witness ==
    /\ "again" \in DOMAIN ret
    /\ Len(arg) = 11
    /\ arg[1] = "1"
    /\ arg[2] = "1"
    /\ arg[5] = "-"
    /\ Len(ret.value) = 14
    /\ ret.again = ret.value

\* a request for a rule whose view function shows a table or the dashboard
Guarded(route) == route \in Routes /\ route.reads # {}

\* the request the step serves is for this rule
Serves(route) == Len(trace') = Len(trace) + 1 /\ arg'.rule = route.rule

\* C30: in the web app a view function that reads the receivables or the
\* customers table, or renders the dashboard, runs only for a session that
\* holds 'logged_in', which only a POST /login with the configured
\* credentials puts there and /logout clears; any other request for such a
\* rule is redirected to the login page.
C30_GuardedRoutesNeedLogin ==
    [][/\ ("logged_in" \in session' /\ "logged_in" \notin session)
           => arg' = Request("/login", "POST",
                             [username |-> LOGIN_USER, password |-> LOGIN_PASSWORD])
       /\ (Len(trace') = Len(trace) + 1 /\ arg'.rule = "/logout")
           => "logged_in" \notin session'
       /\ \A route \in Routes :
             Guarded(route) /\ Serves(route)
                 => IF "logged_in" \in session
                    THEN ret' = Rendered(route.f)
                    ELSE ret' = Redirect("login")]_vars

====
